---- MODULE Spec2Model ----
(***************************************************************************)
(* Model of src/main.py: a Streamlit script that loads per-school          *)
(* environmental (CSV) and growth (XLSX sheet) tables from the directory   *)
(* 'data', guards against missing data, filters by the sidebar selection   *)
(* and renders three tabs with two download exports.                       *)
(*                                                                         *)
(* Strings are sequences of tokens: a token is one Hangul syllable, one     *)
(* conjoining jamo, or an opaque run of other characters (an extension, a  *)
(* separator).  Python objects are records tagged with their type.         *)
(***************************************************************************)
EXTENDS Integers, Sequences, FiniteSets, TLC

\* Number of script runs (UI interactions) explored in one process.
MaxRuns == 3

----------------------------------------------------------------------------
\* Unicode: canonical composition of Hangul (unicodedata.normalize('NFC', .))

\* Leading consonant + vowel -> LV syllable; LV syllable + trailing consonant
\* -> LVT syllable.  Every other pair of tokens does not compose.
ComposePair(a, b) ==
    CASE a = "L_s"  /\ b = "V_o"  -> "so"
      [] a = "L_s"  /\ b = "V_a"  -> "sa"
      [] a = "L_d"  /\ b = "V_o"  -> "do"
      [] a = "L_g"  /\ b = "V_o"  -> "go"
      [] a = "L_h"  /\ b = "V_a"  -> "ha"
      [] a = "L_n"  /\ b = "V_eu" -> "neu"
      [] a = "L_0"  /\ b = "V_a"  -> "a"
      [] a = "L_r"  /\ b = "V_a"  -> "ra"
      [] a = "so"   /\ b = "T_ng" -> "song"
      [] a = "do"   /\ b = "T_ng" -> "dong"
      [] a = "neu"  /\ b = "T_l"  -> "neul"
      [] a = "sa"   /\ b = "T_n"  -> "san"
      [] OTHER -> "none"

RECURSIVE NFCFrom(_, _)
NFCFrom(out, rest) ==
    IF rest = <<>> THEN out
    ELSE LET c == Head(rest)
             n == Len(out)
         IN  IF n > 0 /\ ComposePair(out[n], c) # "none"
             THEN NFCFrom([out EXCEPT ![n] = ComposePair(out[n], c)], Tail(rest))
             ELSE NFCFrom(Append(out, c), Tail(rest))

NFC(s) == NFCFrom(<<>>, s)

\* Python's `sub in s` on strings.
Contains(s, sub) ==
    \E i \in 1..(Len(s) - Len(sub) + 1) : SubSeq(s, i, i + Len(sub) - 1) = sub

\* Python's s.endswith(ext) for a one-token extension.
EndsWith(s, ext) == Len(s) > 0 /\ s[Len(s)] = ext

----------------------------------------------------------------------------
\* Python objects

None == [type |-> "NoneType"]
Undefined == [type |-> "undefined"]
Dict(items) == [type |-> "dict", items |-> items]
DataFrame(rows) == [type |-> "DataFrame", rows |-> rows]

\* A dict's items are kept in insertion order; assigning to an existing key
\* replaces its value in place.
DictHas(d, k) == \E i \in 1..Len(d.items) : d.items[i].k = k
DictGet(d, k) == d.items[CHOOSE i \in 1..Len(d.items) : d.items[i].k = k].v
\* dict.setdefault(k, v): an existing entry is kept.
DictSetFirstWins(d, k, v) ==
    IF DictHas(d, k) THEN d ELSE Dict(Append(d.items, [k |-> k, v |-> v]))
\* d[k] = v
DictSet(d, k, v) ==
    IF DictHas(d, k)
    THEN Dict([i \in 1..Len(d.items) |->
                 IF d.items[i].k = k THEN [k |-> k, v |-> v] ELSE d.items[i]])
    ELSE Dict(Append(d.items, [k |-> k, v |-> v]))
Keys(d) == {d.items[i].k : i \in 1..Len(d.items)}
KeyList(d) == [i \in 1..Len(d.items) |-> d.items[i].k]

\* Truthiness of `not x` for None and dict.
Falsy(x) == x = None \/ (x.type = "dict" /\ x.items = <<>>)

----------------------------------------------------------------------------
\* Fixed labels

Songdo == <<"song", "do", "go">>
Haneul == <<"ha", "neul", "go">>
Ara    == <<"a", "ra", "go">>
Dongsan == <<"dong", "san", "go">>
ALL == <<"jeon", "che">>

school_info ==
    Dict(<< [k |-> Songdo,  v |-> [ec_target |-> 1, color |-> "#AB63FA"]],
            [k |-> Haneul,  v |-> [ec_target |-> 2, color |-> "#00CC96"]],
            [k |-> Ara,     v |-> [ec_target |-> 4, color |-> "#FFA15A"]],
            [k |-> Dongsan, v |-> [ec_target |-> 8, color |-> "#EF553B"]] >>)

----------------------------------------------------------------------------
\* Files the directory may hold.  A CSV file's rows are what pd.read_csv
\* parses (time still a string); a spreadsheet's sheets are what
\* pd.read_excel parses, in workbook order.

CsvRows(tag, n) ==
    [i \in 1..n |-> [time |-> [type |-> "str", v |-> i], temperature |-> 10 * tag + i]]
SheetRows(tag, n) == [i \in 1..n |-> [weight |-> 10 * tag + i]]

CsvFile(name, tag, n) == [name |-> name, rows |-> CsvRows(tag, n), sheets |-> <<>>]
XlsxFile(name, sheets) == [name |-> name, rows |-> <<>>, sheets |-> sheets]
Sheet(name, tag, n) == [name |-> name, rows |-> SheetRows(tag, n)]

HaneulNFD == <<"L_h", "V_a", "L_n", "V_eu", "T_l", "L_g", "V_o">>
DongsanNFD == <<"L_d", "V_o", "T_ng", "L_s", "V_a", "T_n", "L_g", "V_o">>

SongdoCsv  == CsvFile(Songdo \o <<"_env", ".csv">>, 1, 1)
HaneulCsv  == CsvFile(HaneulNFD \o <<"_env", ".csv">>, 2, 2)
AraCsv     == CsvFile(Ara \o <<"_env", ".csv">>, 3, 0)
DongsanCsv == CsvFile(<<"x_">> \o Dongsan \o <<".csv">>, 4, 1)
GrowthXlsx ==
    XlsxFile(<<"growth", ".xlsx">>,
             << Sheet(Songdo, 5, 2), Sheet(HaneulNFD, 6, 1),
                Sheet(<<"x_">> \o Ara, 7, 1), Sheet(DongsanNFD, 8, 0) >>)
\* A workbook named after one school, with a sheet naming two schools, a
\* second sheet for one of them and a sheet naming none.
ExtraXlsx ==
    XlsxFile(Dongsan \o <<".xlsx">>,
             << Sheet(Songdo \o <<"_">> \o Haneul, 9, 1), Sheet(Songdo, 10, 2),
                Sheet(<<"Sheet1">>, 11, 1) >>)
\* A CSV file naming two schools.
MixedCsv == CsvFile(Haneul \o <<"_">> \o Songdo \o <<".csv">>, 12, 2)

\* Directory entries are referred to by these identifiers; File gives the
\* entry's name and content, which never change.
SessionFiles == {"SongdoCsv", "HaneulCsv", "AraCsv", "DongsanCsv", "GrowthXlsx", "ExtraXlsx"}
AllFiles == SessionFiles \cup {"MixedCsv"}
File(id) ==
    CASE id = "SongdoCsv"  -> SongdoCsv
      [] id = "HaneulCsv"  -> HaneulCsv
      [] id = "AraCsv"     -> AraCsv
      [] id = "DongsanCsv" -> DongsanCsv
      [] id = "GrowthXlsx" -> GrowthXlsx
      [] id = "ExtraXlsx"  -> ExtraXlsx
      [] id = "MixedCsv"   -> MixedCsv
Files(l) == [i \in 1..Len(l) |-> File(l[i])]

\* Every order in which Path.iterdir() may yield the entries of a directory.
RECURSIVE Enumerations(_)
Enumerations(d) ==
    IF d = {} THEN {<<>>}
    ELSE UNION {{<<f>> \o l : l \in Enumerations(d \ {f})} : f \in d}

----------------------------------------------------------------------------
\* load_data's body

ToDatetime(rows) ==
    [i \in 1..Len(rows) |-> [rows[i] EXCEPT !.time = [type |-> "datetime64", v |-> @.v]]]

\* The loop over the labels with a break after the first match.
RECURSIVE StoreFirstMatchOnly(_, _, _, _)
StoreFirstMatchOnly(data, name, df, schools) ==
    IF schools = <<>> THEN data
    ELSE IF Contains(name, Head(schools))
         THEN DictSet(data, Head(schools), df)
         ELSE StoreFirstMatchOnly(data, name, df, Tail(schools))

\* for school in school_info.keys(): if school in name: data[school] = df
RECURSIVE StoreMatches(_, _, _, _)
StoreMatches(data, name, df, schools) ==
    IF schools = <<>> THEN data
    ELSE StoreMatches(IF Contains(name, Head(schools))
                      THEN DictSet(data, Head(schools), df)
                      ELSE data,
                      name, df, Tail(schools))

\* unicodedata.normalize('NFC', file.name) and ('NFC', sheet_name)
NameAsIs(name) == name
NormalizedName(name) == NFC(name)

\* for sheet_name in xls.sheet_names: ...
RECURSIVE LoadSheets(_, _)
LoadSheets(growth, sheets) ==
    IF sheets = <<>> THEN growth
    ELSE LET sh == Head(sheets)
         IN  LoadSheets(StoreMatches(growth, NormalizedName(sh.name), DataFrame(sh.rows),
                                     KeyList(school_info)),
                        Tail(sheets))

\* for file in data_path.iterdir(): ...
RECURSIVE LoadFiles(_, _, _)
LoadFiles(env, growth, files) ==
    IF files = <<>> THEN <<env, growth, school_info>>
    ELSE LET file == Head(files)
             norm_name == NormalizedName(file.name)
         IN  IF EndsWith(norm_name, ".csv")
             THEN LoadFiles(StoreMatches(env, norm_name, DataFrame(ToDatetime(file.rows)),
                                         KeyList(school_info)),
                            growth, Tail(files))
             ELSE IF EndsWith(norm_name, ".xlsx")
             THEN LoadFiles(env, LoadSheets(growth, file.sheets), Tail(files))
             ELSE LoadFiles(env, growth, Tail(files))

\* The value load_data returns: a 2-tuple when 'data' is missing, else a
\* 3-tuple.
load_data(exists, files) ==
    IF ~exists THEN <<None, None>>
    ELSE LoadFiles(Dict(<<>>), Dict(<<>>), Files(files))

----------------------------------------------------------------------------
\* View filter and exports

\* df.assign(school=s): a copy of df with the column 'school' set to s.
AssignFirstLabel(df, s) ==
    DataFrame([i \in 1..Len(df.rows) |->
        [c \in DOMAIN df.rows[i] \cup {"school"} |->
            IF c = "school" THEN Songdo ELSE df.rows[i][c]]])
Assign(df, s) ==
    DataFrame([i \in 1..Len(df.rows) |->
        [c \in DOMAIN df.rows[i] \cup {"school"} |->
            IF c = "school" THEN s ELSE df.rows[i][c]]])

\* pd.concat(frames): the frames' rows, one frame after the other.
ConcatFirstOnly(frames) == frames[1]
RECURSIVE Concat(_)
Concat(frames) ==
    IF Len(frames) = 1 THEN frames[1]
    ELSE DataFrame(frames[1].rows \o Concat(Tail(frames)).rows)

\* [df.assign(school=s) for s, df in d.items()]
TaggedFrames(d) == [i \in 1..Len(d.items) |-> Assign(d.items[i].v, d.items[i].k)]

\* st.sidebar.selectbox(label, options): the widget's current value, the
\* first option until the user picks one.
SelectboxDefault(options, state) == options[1]
Selectbox(options, state) ==
    IF \E i \in 1..Len(options) : options[i] = state THEN state ELSE options[1]

FormatTime(t) == [type |-> "str", v |-> t.v]

\* display_env.to_csv(index=False).encode('utf-8-sig')
ToCsv(df) ==
    << "BOM", <<"time", "temperature", "school">> >>
    \o [i \in 1..Len(df.rows) |->
          << FormatTime(df.rows[i].time), df.rows[i].temperature, df.rows[i].school >>]

\* display_growth.to_excel(writer, index=False, sheet_name='Sheet1')
ToExcel(df) ==
    [sheet |-> "Sheet1",
     header |-> <<"weight", "school">>,
     rows |-> [i \in 1..Len(df.rows) |-> << df.rows[i].weight, df.rows[i].school >>]]

----------------------------------------------------------------------------
\* State

VARIABLES
    dirExists,       \* whether Path("data") exists
    dir,             \* the entries of 'data'
    listing,         \* the order iterdir() yielded them in load_data's body
    cache,           \* st.cache_data's entry for load_data(), <<>> when empty
    loadCount,       \* number of executions of load_data's body
    run,             \* number of script runs started
    widget,          \* the selectbox's value in the session state
    pc,              \* position of the running script, "idle" between runs
    outcome,         \* how the last run ended
    loaded,          \* what load_data() returned in this run
    firstLoaded,     \* what load_data() returned in the first run
    env_dict, growth_dict, info_dict,
    selected_school,
    display_env, display_growth,
    rendered,        \* the elements the run has put on the page
    csv, xlsx        \* the payloads of the two download buttons

vars == << dirExists, dir, listing, cache, loadCount, run, widget, pc, outcome,
           loaded, firstLoaded, env_dict, growth_dict, info_dict, selected_school,
           display_env, display_growth, rendered, csv, xlsx >>

fs == << dirExists, dir >>
globals == << env_dict, growth_dict, info_dict, selected_school,
              display_env, display_growth, csv, xlsx >>

NotCached == <<>>
NotCalled == <<>>

InitWith(files) ==
    /\ dirExists \in BOOLEAN
    /\ dir \in (IF dirExists THEN SUBSET files ELSE {{}})
    /\ listing = <<>>
    /\ cache = NotCached
    /\ loadCount = 0
    /\ run = 0
    /\ widget = ALL
    /\ pc = "idle"
    /\ outcome = "none"
    /\ loaded = NotCalled
    /\ firstLoaded = NotCalled
    /\ env_dict = Undefined
    /\ growth_dict = Undefined
    /\ info_dict = Undefined
    /\ selected_school = Undefined
    /\ display_env = Undefined
    /\ display_growth = Undefined
    /\ rendered = {}
    /\ csv = Undefined
    /\ xlsx = Undefined

Init == InitWith(SessionFiles)

----------------------------------------------------------------------------
\* One script run, step by step

\* The user opens the page, reruns it, or picks a school in the selectbox
\* (possible once the selectbox is on the page); the script starts over with
\* fresh globals.
StartRun ==
    /\ pc = "idle"
    /\ run < MaxRuns
    /\ run' = run + 1
    /\ \E s \in (IF "selectbox" \in rendered THEN {ALL} \cup Keys(school_info)
                 ELSE {widget}) : widget' = s
    /\ pc' = "load"
    /\ outcome' = "running"
    /\ loaded' = NotCalled
    /\ env_dict' = Undefined
    /\ growth_dict' = Undefined
    /\ info_dict' = Undefined
    /\ selected_school' = Undefined
    /\ display_env' = Undefined
    /\ display_growth' = Undefined
    /\ rendered' = {}
    /\ csv' = Undefined
    /\ xlsx' = Undefined
    /\ UNCHANGED << fs, listing, cache, loadCount, firstLoaded >>

\* @st.cache_data: the body runs only when there is no entry.
CacheNeverHits == FALSE
CacheHit == cache # NotCached

\* env_dict, growth_dict, info_dict = load_data()
LoadStep ==
    /\ pc = "load"
    /\ \E l \in (IF CacheHit THEN {listing}
                 ELSE IF dirExists THEN Enumerations(dir) ELSE {<<>>}) :
         \E result \in {IF CacheHit THEN cache ELSE load_data(dirExists, l)} :
             /\ listing' = l
             /\ cache' = result
             /\ loadCount' = IF CacheHit THEN loadCount ELSE loadCount + 1
             /\ loaded' = result
             /\ firstLoaded' = IF run = 1 THEN result ELSE firstLoaded
             \* st.error inside the cached function is replayed on a hit
             /\ rendered' = IF result = <<None, None>>
                            THEN rendered \cup {"error_no_data_folder"}
                            ELSE rendered
             /\ IF Len(result) = 3
                THEN /\ env_dict' = result[1]
                     /\ growth_dict' = result[2]
                     /\ info_dict' = result[3]
                     /\ pc' = "guard"
                     /\ outcome' = outcome
                ELSE \* ValueError: not enough values to unpack
                     /\ UNCHANGED << env_dict, growth_dict, info_dict >>
                     /\ pc' = "idle"
                     /\ outcome' = "ValueError"
    /\ UNCHANGED << fs, run, widget, selected_school, display_env, display_growth,
                    csv, xlsx >>

\* if not env_dict or not growth_dict: st.error(...); st.stop()
Guard ==
    /\ pc = "guard"
    /\ IF Falsy(env_dict) \/ Falsy(growth_dict)
       THEN /\ rendered' = rendered \cup {"error_insufficient_data"}
            /\ pc' = "idle"
            /\ outcome' = "stopped"
       ELSE /\ rendered' = rendered
            /\ pc' = "sidebar"
            /\ outcome' = outcome
    /\ UNCHANGED << fs, listing, cache, loadCount, run, widget, loaded, firstLoaded,
                    globals >>

\* school_list = ["all"] + list(info_dict.keys()); selected_school = selectbox(...)
Sidebar ==
    /\ pc = "sidebar"
    /\ LET school_list == <<ALL>> \o KeyList(info_dict)
       IN  selected_school' = Selectbox(school_list, widget)
    /\ rendered' = rendered \cup {"selectbox"}
    /\ pc' = "filter"
    /\ UNCHANGED << fs, listing, cache, loadCount, run, widget, outcome, loaded,
                    firstLoaded, env_dict, growth_dict, info_dict,
                    display_env, display_growth, csv, xlsx >>

\* if selected_school == "all": ... else: ...
Filter ==
    /\ pc = "filter"
    /\ IF selected_school = ALL
       THEN /\ display_env' = Concat(TaggedFrames(env_dict))
            /\ display_growth' = Concat(TaggedFrames(growth_dict))
            /\ pc' = "tab1"
            /\ outcome' = outcome
       ELSE IF ~DictHas(env_dict, selected_school)
       THEN \* KeyError at env_dict[selected_school]
            /\ UNCHANGED << display_env, display_growth >>
            /\ pc' = "idle"
            /\ outcome' = "KeyError"
       ELSE IF ~DictHas(growth_dict, selected_school)
       THEN \* KeyError at growth_dict[selected_school]
            /\ display_env' = Assign(DictGet(env_dict, selected_school), selected_school)
            /\ UNCHANGED display_growth
            /\ pc' = "idle"
            /\ outcome' = "KeyError"
       ELSE /\ display_env' = Assign(DictGet(env_dict, selected_school), selected_school)
            /\ display_growth' = Assign(DictGet(growth_dict, selected_school),
                                        selected_school)
            /\ pc' = "tab1"
            /\ outcome' = outcome
    /\ UNCHANGED << fs, listing, cache, loadCount, run, widget, loaded, firstLoaded,
                    env_dict, growth_dict, info_dict, selected_school, rendered,
                    csv, xlsx >>

\* Tab 1: the four metrics, then the per-school summary table.
Tab1 ==
    /\ pc = "tab1"
    /\ IF \A s \in Keys(info_dict) : DictHas(growth_dict, s)
       THEN /\ rendered' = rendered \cup {"title", "metrics", "summary_table"}
            /\ pc' = "tab2"
            /\ outcome' = outcome
       ELSE \* KeyError at growth_dict[s], after the metrics were rendered
            /\ rendered' = rendered \cup {"title", "metrics"}
            /\ pc' = "idle"
            /\ outcome' = "KeyError"
    /\ UNCHANGED << fs, listing, cache, loadCount, run, widget, loaded, firstLoaded,
                    globals >>

\* Tab 2: per-school averages, the selected school's time series, the CSV export.
Tab2 ==
    /\ pc = "tab2"
    /\ IF \A s \in Keys(info_dict) : DictHas(env_dict, s)
       THEN /\ rendered' = rendered \cup {"env_chart", "env_dataframe", "csv_download"}
                             \cup (IF selected_school # ALL
                                   THEN {"line_chart", "ec_chart"} ELSE {})
            /\ csv' = ToCsv(display_env)
            /\ pc' = "tab3"
            /\ outcome' = outcome
       ELSE \* KeyError at env_dict[s]
            /\ UNCHANGED << rendered, csv >>
            /\ pc' = "idle"
            /\ outcome' = "KeyError"
    /\ UNCHANGED << fs, listing, cache, loadCount, run, widget, loaded, firstLoaded,
                    env_dict, growth_dict, info_dict, selected_school,
                    display_env, display_growth, xlsx >>

\* Tab 3: best school, growth charts, the XLSX export.
Tab3 ==
    /\ pc = "tab3"
    /\ IF \A s \in Keys(info_dict) : DictHas(growth_dict, s)
       THEN /\ rendered' = rendered \cup {"best_school", "growth_chart", "box_chart",
                                          "scatter_chart", "growth_dataframe",
                                          "xlsx_download"}
            /\ xlsx' = ToExcel(display_growth)
            /\ outcome' = "done"
       ELSE /\ UNCHANGED << rendered, xlsx >>
            /\ outcome' = "KeyError"
    /\ pc' = "idle"
    /\ UNCHANGED << fs, listing, cache, loadCount, run, widget, loaded, firstLoaded,
                    env_dict, growth_dict, info_dict, selected_school,
                    display_env, display_growth, csv >>

\* The environment: 'data' is removed while no run is in progress (the script
\* reads the directory only inside load_data).
RemoveDataDir ==
    /\ pc = "idle"
    /\ dirExists
    /\ dirExists' = FALSE
    /\ dir' = {}
    /\ UNCHANGED << listing, cache, loadCount, run, widget, pc, outcome, loaded,
                    firstLoaded, globals, rendered >>

Next ==
    \/ StartRun
    \/ LoadStep
    \/ Guard
    \/ Sidebar
    \/ Filter
    \/ Tab1
    \/ Tab2
    \/ Tab3
    \/ RemoveDataDir

Spec == Init /\ [][Next]_vars

\* load_data alone, over every directory drawn from AllFiles.
InitLoad == InitWith(AllFiles)
NextLoad == StartRun \/ LoadStep
SpecLoad == InitLoad /\ [][NextLoad]_vars

----------------------------------------------------------------------------
\* Properties

Labels == {Songdo, Haneul, Ara, Dongsan}

\* The elements that present data: metrics, tables, charts, downloads.
DisplayElements ==
    {"metrics", "summary_table", "env_chart", "line_chart", "ec_chart",
     "env_dataframe", "csv_download", "best_school", "growth_chart", "box_chart",
     "scatter_chart", "growth_dataframe", "xlsx_download"}

\* The load returned mappings, and some label has no entry in one of them.
IncompleteData ==
    /\ Len(loaded) = 3
    /\ \E s \in Labels : ~DictHas(loaded[1], s) \/ ~DictHas(loaded[2], s)

\* C1: when 'data' does not exist, load_data reports the error and yields no
\* data, the caller takes the result without failure, no filter or render
\* step is reached, and the run ends by the reported-error stop.
C1_MissingDirHaltsCleanly ==
    loaded = <<None, None>> =>
        /\ "error_no_data_folder" \in rendered
        /\ display_env = Undefined /\ display_growth = Undefined
        /\ rendered \cap DisplayElements = {}
        /\ outcome \notin {"ValueError", "KeyError"}
        /\ pc = "idle" => outcome = "stopped"

\* C2: after a load from an existing directory that leaves some label without
\* an entry in either mapping, the guard reports the problem and the run
\* stops before the filter and render steps.
C2_IncompleteDataStopsAtGuard ==
    IncompleteData =>
        /\ pc \notin {"sidebar", "filter", "tab1", "tab2", "tab3"}
        /\ pc = "idle" =>
              outcome = "stopped" /\ "error_insufficient_data" \in rendered

Untag(r) == [c \in DOMAIN r \ {"school"} |-> r[c]]

RECURSIVE SumRows(_, _)
SumRows(d, n) ==
    IF n = 0 THEN 0 ELSE Len(d.items[n].v.rows) + SumRows(d, n - 1)

\* Each row of item i of d occurs exactly once in display under i's label.
ItemKept(display, d, i) ==
    \A j \in 1..Len(d.items[i].v.rows) :
        Cardinality({m \in 1..Len(display.rows) :
                        /\ display.rows[m].school = d.items[i].k
                        /\ Untag(display.rows[m]) = d.items[i].v.rows[j]}) = 1

RowCountLaw(display, d) ==
    display # Undefined =>
        IF selected_school = ALL
        THEN /\ Len(display.rows) = SumRows(d, Len(d.items))
             /\ \A i \in 1..Len(d.items) : ItemKept(display, d, i)
        ELSE /\ Len(display.rows) = Len(DictGet(d, selected_school).rows)
             /\ \A i \in 1..Len(d.items) :
                    d.items[i].k = selected_school => ItemKept(display, d, i)

\* C3: with selection "all" each filtered table has as many rows as all
\* per-entity tables together, with a specific label as many as that
\* entity's table; every source row occurs exactly once.
C3_RowCountLaw ==
    /\ RowCountLaw(display_env, env_dict)
    /\ RowCountLaw(display_growth, growth_dict)

C3_Witness ==
    /\ pc = "tab1"
    /\ selected_school = ALL
    /\ Keys(env_dict) = Labels
    /\ Len(display_env.rows) = 4
    /\ Len(growth_dict.items) > 1
    /\ Len(display_growth.rows) > Len(growth_dict.items[1].v.rows)

TagsMatch(display, d) ==
    display # Undefined =>
        \A m \in 1..Len(display.rows) :
            LET r == display.rows[m]
            IN  /\ r.school \in Labels
                /\ DictHas(d, r.school)
                /\ \E j \in 1..Len(DictGet(d, r.school).rows) :
                       DictGet(d, r.school).rows[j] = Untag(r)
                /\ selected_school # ALL => r.school = selected_school

\* C4: every row of a filtered table carries a 'school' tag that is one of
\* the four labels and is the label of the per-entity table the row came
\* from; with a specific selection the tag is the selected label.
C4_SourceTags ==
    /\ TagsMatch(display_env, env_dict)
    /\ TagsMatch(display_growth, growth_dict)

C4_Witness ==
    /\ display_env # Undefined
    /\ display_growth # Undefined
    /\ \E m, n \in 1..Len(display_env.rows) :
           display_env.rows[m].school # display_env.rows[n].school
    /\ \E m \in 1..Len(display_growth.rows) : display_growth.rows[m].school = Haneul

\* The labels that are substrings of a name in canonical composed form.
MatchedLabels(name) == {s \in Labels : Contains(NFC(name), s)}
IsCsv(f) == EndsWith(NFC(f.name), ".csv")
IsXlsx(f) == ~IsCsv(f) /\ EndsWith(NFC(f.name), ".xlsx")

\* Exactly four CSV files, one per label, and one spreadsheet with exactly
\* four sheets, one per label.
ExpectedDirectory(l) ==
    LET f == Files(l)
        csvs == {i \in 1..Len(f) : IsCsv(f[i])}
        books == {i \in 1..Len(f) : IsXlsx(f[i])}
    IN  /\ Len(f) = 5
        /\ Cardinality(csvs) = 4
        /\ Cardinality(books) = 1
        /\ \A s \in Labels :
               Cardinality({i \in csvs : MatchedLabels(f[i].name) = {s}}) = 1
        /\ \A b \in books :
               /\ Len(f[b].sheets) = 4
               /\ \A s \in Labels :
                      Cardinality({j \in 1..4 :
                                      MatchedLabels(f[b].sheets[j].name) = {s}}) = 1

\* C5: from a directory with exactly the four expected CSV files and one
\* spreadsheet with exactly the four expected sheets, in any enumeration
\* order, each mapping gets exactly four entries, one per label.
C5_FourEntries ==
    (Len(loaded) = 3 /\ ExpectedDirectory(listing)) =>
        /\ Keys(loaded[1]) = Labels /\ Len(loaded[1].items) = 4
        /\ Keys(loaded[2]) = Labels /\ Len(loaded[2].items) = 4

C5_Witness ==
    /\ Len(loaded) = 3
    /\ ExpectedDirectory(listing)
    /\ listing[1] = "GrowthXlsx"
    /\ listing[5] = "SongdoCsv"

\* C6: whenever the loaded data has a problem, no display element is rendered.
C6_NoPartialRendering ==
    (loaded # NotCalled /\ (Len(loaded) # 3 \/ IncompleteData)) =>
        rendered \cap DisplayElements = {}

\* C7: load_data's body runs at most once in the process, and every run sees
\* the mappings the first run saw.
C7_LoadedOnce ==
    /\ loadCount <= 1
    /\ loaded # NotCalled => loaded = firstLoaded

C7_Witness ==
    /\ run >= 2
    /\ widget # ALL
    /\ ~dirExists
    /\ Len(loaded) = 3
    /\ loaded = firstLoaded
    /\ loadCount = 1
    /\ display_env # Undefined

\* The (value, label) pairs the selection sel picks from mapping d.
SelectedPairs(d, sel, column) ==
    UNION {{<<d.items[i].v.rows[j][column], d.items[i].k>> :
               j \in 1..Len(d.items[i].v.rows)} :
           i \in {n \in 1..Len(d.items) : sel = ALL \/ d.items[n].k = sel}}

\* C8: the two exports offered in a run hold exactly the rows the selection
\* current in that run picks, whatever was selected before.
C8_ExportsReflectSelection ==
    /\ "csv_download" \in rendered =>
          /\ Len(csv) - 2 = Cardinality(SelectedPairs(env_dict, widget, "temperature"))
          /\ {<<csv[n][2], csv[n][3]>> : n \in 3..Len(csv)}
                 = SelectedPairs(env_dict, widget, "temperature")
    /\ "xlsx_download" \in rendered =>
          /\ Len(xlsx.rows) = Cardinality(SelectedPairs(growth_dict, widget, "weight"))
          /\ {<<xlsx.rows[n][1], xlsx.rows[n][2]>> : n \in 1..Len(xlsx.rows)}
                 = SelectedPairs(growth_dict, widget, "weight")

C8_Witness ==
    /\ run >= 2
    /\ outcome = "done"
    /\ widget = Haneul
    /\ Len(csv) = 4
    /\ Len(xlsx.rows) = 1
    /\ SumRows(env_dict, Len(env_dict.items)) > 2

\* What load_data's loops meet, in order: the CSV files with their parsed
\* tables, and the sheets of the spreadsheets with theirs; each with the
\* labels its name contains.
EnvCandidates(l) ==
    LET c == SelectSeq(Files(l), IsCsv)
    IN  [i \in 1..Len(c) |->
            [labels |-> MatchedLabels(c[i].name),
             df |-> DataFrame(ToDatetime(c[i].rows))]]

RECURSIVE SheetsOf(_)
SheetsOf(f) ==
    IF f = <<>> THEN <<>>
    ELSE (IF IsXlsx(Head(f))
          THEN [j \in 1..Len(Head(f).sheets) |->
                   [labels |-> MatchedLabels(Head(f).sheets[j].name),
                    df |-> DataFrame(Head(f).sheets[j].rows)]]
          ELSE <<>>) \o SheetsOf(Tail(f))
GrowthCandidates(l) == SheetsOf(Files(l))

IsLastMatch(cands, i, s) ==
    /\ s \in cands[i].labels
    /\ \A j \in (i + 1)..Len(cands) : s \notin cands[j].labels

\* The first label, in school_info's order, among a non-empty set of labels.
FirstLabel(labels) ==
    LET order == KeyList(school_info)
    IN  order[CHOOSE i \in 1..Len(order) :
                 /\ order[i] \in labels
                 /\ \A j \in 1..(i - 1) : order[j] \notin labels]

FirstMatchWins(cands, d) ==
    \A i \in 1..Len(cands) :
        Cardinality(cands[i].labels) > 1 =>
            /\ DictHas(d, FirstLabel(cands[i].labels))
            /\ \A s \in cands[i].labels \ {FirstLabel(cands[i].labels)} :
                   ~(DictHas(d, s) /\ DictGet(d, s) = cands[i].df)

\* C9 as stated: a table whose name contains several labels is stored under
\* the first of them only, and under no other label.
C9_FirstMatchWins ==
    Len(loaded) = 3 =>
        /\ \A cands \in {EnvCandidates(listing)} : FirstMatchWins(cands, loaded[1])
        /\ \A cands \in {GrowthCandidates(listing)} : FirstMatchWins(cands, loaded[2])

StoredUnderEveryMatch(cands, d) ==
    \A i \in 1..Len(cands) :
        Cardinality(cands[i].labels) > 1 =>
            \A s \in cands[i].labels :
                /\ DictHas(d, s)
                /\ IsLastMatch(cands, i, s) => DictGet(d, s) = cands[i].df

\* C9 amended: a table whose name contains several labels is stored under
\* every one of them; each of these entries holds that table unless a match
\* enumerated later replaced it.
C9_StoredUnderEveryMatch ==
    Len(loaded) = 3 =>
        /\ \A cands \in {EnvCandidates(listing)} :
               StoredUnderEveryMatch(cands, loaded[1])
        /\ \A cands \in {GrowthCandidates(listing)} :
               StoredUnderEveryMatch(cands, loaded[2])

C9_Witness ==
    /\ Len(loaded) = 3
    /\ \E i \in 1..Len(listing) : listing[i] = "MixedCsv"
    /\ DictHas(loaded[1], Songdo) /\ DictHas(loaded[1], Haneul)
    /\ DictGet(loaded[1], Songdo) = DictGet(loaded[1], Haneul)
    /\ DictGet(loaded[1], Songdo) = DataFrame(ToDatetime(MixedCsv.rows))
    /\ DictHas(loaded[2], Haneul)
    /\ DictGet(loaded[2], Haneul) = DataFrame(ExtraXlsx.sheets[1].rows)

LastMatchWins(cands, d) ==
    \A s \in Labels :
        Cardinality({i \in 1..Len(cands) : s \in cands[i].labels}) > 1 =>
            /\ Cardinality({n \in 1..Len(d.items) : d.items[n].k = s}) = 1
            /\ \A i \in 1..Len(cands) :
                   IsLastMatch(cands, i, s) => DictGet(d, s) = cands[i].df

\* C10: when several files, or several sheets of any spreadsheets, match the
\* same label, the mapping ends with exactly one table for the label, that
\* of the match enumerated last.
C10_LastMatchWins ==
    Len(loaded) = 3 =>
        /\ \A cands \in {EnvCandidates(listing)} : LastMatchWins(cands, loaded[1])
        /\ \A cands \in {GrowthCandidates(listing)} : LastMatchWins(cands, loaded[2])

C10_Witness ==
    /\ Len(loaded) = 3
    /\ \E i, j \in 1..Len(listing) :
           /\ i < j
           /\ listing[i] = "MixedCsv"
           /\ listing[j] = "SongdoCsv"
    /\ DictGet(loaded[1], Songdo) = DataFrame(ToDatetime(SongdoCsv.rows))
    /\ DictGet(loaded[1], Haneul) = DataFrame(ToDatetime(MixedCsv.rows))
    /\ \E i, j \in 1..Len(listing) :
           /\ i < j
           /\ listing[i] = "ExtraXlsx"
           /\ listing[j] = "GrowthXlsx"
    /\ DictGet(loaded[2], Songdo) = DataFrame(GrowthXlsx.sheets[1].rows)

====
